---- MODULE Spec2Model ----
(***************************************************************************)
(* Model of the portfolio website: the Database wrapper (app/database.py), *)
(* the pydantic schemas (app/models.py) and the FastAPI handlers           *)
(* (app/main.py).  One action per handler; the store (MongoDB collections  *)
(* "projects" and "contacts") is part of the state.                        *)
(*                                                                         *)
(* Representation choices:                                                 *)
(*  - the tech-stack form field, tech-stack entries and e-mail addresses   *)
(*    are sequences of one-character strings, because the code splits,     *)
(*    strips and validates them character by character; the other text     *)
(*    fields are TLA+ strings (only their length is inspected);            *)
(*  - an ObjectId is a positive number n; the 24-hex string that denotes   *)
(*    it is [hex |-> n]; any other string s is [raw |-> s];                *)
(*  - Python's None is the string "None" (no input set contains it);       *)
(*  - a MongoDB document is a function from field names to values, so a    *)
(*    document has exactly the fields that were written to it.             *)
(***************************************************************************)
EXTENDS Integers, Sequences, FiniteSets, TLC

VARIABLES
    phase,          \* "created" | "running" | "stopped": lifespan of the app
    client,         \* Database.client
    db,             \* Database.db
    connected,      \* TRUE iff some connect() call has returned True
    EMAIL_USERNAME, \* module constants read from the environment at import
    EMAIL_PASSWORD,
    projects,       \* the "projects" collection, in natural (insertion) order
    contacts,       \* the "contacts" collection, in natural (insertion) order
    nextId,         \* the next ObjectId the driver generates
    writes,         \* number of requests so far that changed the store
    req,            \* the request handled last
    resp,           \* the response to it
    log             \* what the handler of that request did, in order

vars == <<phase, client, db, connected, EMAIL_USERNAME, EMAIL_PASSWORD,
          projects, contacts, nextId, writes, req, resp, log>>

None == "None"

-----------------------------------------------------------------------------
(* Bounds of the model *)

\* longest tech-stack form string that SpecParse enumerates
MaxLen == 5
\* number of store-changing requests in one behaviour
MaxWrites == 1

-----------------------------------------------------------------------------
(* Sequence helpers *)

Range(s) == {s[i] : i \in 1..Len(s)}

Take(s, n) == SubSeq(s, 1, IF n < Len(s) THEN n ELSE Len(s))

Last(s) == s[Len(s)]

\* All sequences over S of length 1..n
RECURSIVE SeqsUpTo(_, _)
SeqsUpTo(S, n) ==
    IF n = 0 THEN {}
    ELSE LET shorter == SeqsUpTo(S, n - 1)
         IN  {<<c>> : c \in S} \cup shorter
                \cup {Append(s, c) : s \in {t \in shorter : Len(t) = n - 1}, c \in S}

-----------------------------------------------------------------------------
(* Python string operations used by the handlers *)

\* the whitespace characters str.strip() removes
Whitespace == {" "}

\* str.split(","): the segments between the commas, empty segments included
RECURSIVE split(_)
split(s) ==
    IF \A i \in 1..Len(s) : s[i] # ","
    THEN <<s>>
    ELSE LET i == CHOOSE k \in 1..Len(s) :
                      s[k] = "," /\ \A j \in 1..(k - 1) : s[j] # ","
         IN  <<SubSeq(s, 1, i - 1)>> \o split(SubSeq(s, i + 1, Len(s)))

RECURSIVE lstrip(_)
lstrip(s) ==
    IF s # <<>> /\ s[1] \in Whitespace THEN lstrip(Tail(s)) ELSE s

RECURSIVE rstrip(_)
rstrip(s) ==
    IF s # <<>> /\ s[Len(s)] \in Whitespace
    THEN rstrip(SubSeq(s, 1, Len(s) - 1))
    ELSE s

\* str.strip()
strip(s) == rstrip(lstrip(s))

\* ParseTechStack with the filter written "if tech": blank segments stay
ParseTechStackFilterUnstripped(tech_stack) ==
    LET segs == split(tech_stack)
        kept == SelectSeq(segs, LAMBDA tech : tech # <<>>)
    IN  [i \in 1..Len(kept) |-> strip(kept[i])]

\* [tech.strip() for tech in tech_stack.split(",") if tech.strip()]
ParseTechStack(tech_stack) ==
    LET segs == split(tech_stack)
        kept == SelectSeq(segs, LAMBDA tech : strip(tech) # <<>>)
    IN  [i \in 1..Len(kept) |-> strip(kept[i])]

\* github_url if github_url else None
OrNone(url) == IF url # "" THEN url ELSE None

-----------------------------------------------------------------------------
(* Schemas of app/models.py *)

NameMinLen == 1
NameMaxLen == 100
DescriptionCreateMinLen == 10
DescriptionMaxLen == 500
TechStackMinItems == 1
ContactNameMinLen == 1
ContactNameMaxLen == 50
SubjectMinLen == 1
SubjectMaxLen == 100
MessageMaxLen == 1000

\* pattern="^(Completed|In Progress|Planning)$"
StatusPattern == {"Completed", "In Progress", "Planning"}

\* ProjectCreate(...) validates; TRUE iff no ValidationError is raised
ProjectCreateValid(name, description, tech_list, status) ==
    /\ Len(name) >= NameMinLen /\ Len(name) <= NameMaxLen
    /\ Len(description) >= DescriptionCreateMinLen
    /\ Len(description) <= DescriptionMaxLen
    /\ Len(tech_list) >= TechStackMinItems
    /\ status \in StatusPattern

\* project_data.dict(): every field of ProjectCreate, image_url at its default
ProjectCreateDict(name, description, tech_list, status, github_url, demo_url, featured) ==
    [name |-> name, description |-> description, tech_stack |-> tech_list,
     status |-> status, github_url |-> github_url, demo_url |-> demo_url,
     image_url |-> None, featured |-> featured]

\* EmailStr: one "@", a non-empty local part, a domain of non-empty labels
\* separated by periods with at least one period
EmailValid(email) ==
    /\ Cardinality({i \in 1..Len(email) : email[i] = "@"}) = 1
    /\ LET at     == CHOOSE i \in 1..Len(email) : email[i] = "@"
           domain == SubSeq(email, at + 1, Len(email))
       IN  /\ at > 1
           /\ \E i \in 1..Len(domain) : domain[i] = "."
           /\ domain # <<>>
           /\ domain[1] # "." /\ domain[Len(domain)] # "."
           /\ \A i \in 1..(Len(domain) - 1) : ~(domain[i] = "." /\ domain[i + 1] = ".")

\* ContactCreate with email declared as a plain str
ContactCreateValidPlainEmail(first_name, last_name, email, subject, message) ==
    /\ Len(first_name) >= ContactNameMinLen /\ Len(first_name) <= ContactNameMaxLen
    /\ Len(last_name) >= ContactNameMinLen /\ Len(last_name) <= ContactNameMaxLen
    /\ Len(subject) >= SubjectMinLen /\ Len(subject) <= SubjectMaxLen
    /\ Len(message) <= MessageMaxLen

\* ContactCreate(...) validates; TRUE iff no ValidationError is raised
ContactCreateValid(first_name, last_name, email, subject, message) ==
    /\ Len(first_name) >= ContactNameMinLen /\ Len(first_name) <= ContactNameMaxLen
    /\ Len(last_name) >= ContactNameMinLen /\ Len(last_name) <= ContactNameMaxLen
    /\ EmailValid(email)
    /\ Len(subject) >= SubjectMinLen /\ Len(subject) <= SubjectMaxLen
    /\ Len(message) <= MessageMaxLen

\* contact_data.dict()
ContactCreateDict(first_name, last_name, email, subject, message, newsletter) ==
    [first_name |-> first_name, last_name |-> last_name, email |-> email,
     subject |-> subject, message |-> message, newsletter_signup |-> newsletter]

-----------------------------------------------------------------------------
(* ObjectId and the store *)

\* bson.ObjectId.is_valid(s): s is a 24-character hex string
ObjectIdValid(s) == "hex" \in DOMAIN s

\* ObjectId(s), defined when ObjectIdValid(s); raises InvalidId otherwise
ObjectId(s) == s.hex

\* str(oid)
str(oid) == [hex |-> oid]

\* collection.insert_one(doc): the driver adds a fresh _id
InsertOne(coll, doc, id) ==
    Append(coll, [k \in DOMAIN doc \cup {"_id"} |->
                     IF k = "_id" THEN id ELSE doc[k]])

\* the document after {"$set": update}
SetFields(doc, update) ==
    [k \in DOMAIN doc \cup DOMAIN update |->
        IF k \in DOMAIN update THEN update[k] ELSE doc[k]]

\* index of the first document with this _id, 0 if there is none
FindIndex(coll, id) ==
    IF \E i \in 1..Len(coll) : coll[i]._id = id
    THEN CHOOSE i \in 1..Len(coll) :
             coll[i]._id = id /\ \A j \in 1..(i - 1) : coll[j]._id # id
    ELSE 0

\* the update written as a replacement of the whole document
UpdateOneReplace(coll, id, update) ==
    LET i == FindIndex(coll, id)
    IN  IF i = 0 THEN coll
        ELSE [coll EXCEPT ![i] = [k \in DOMAIN update \cup {"_id"} |->
                                     IF k = "_id" THEN id ELSE update[k]]]

\* collection.update_one({"_id": id}, {"$set": update})
UpdateOne(coll, id, update) ==
    LET i == FindIndex(coll, id)
    IN  IF i = 0 THEN coll ELSE [coll EXCEPT ![i] = SetFields(coll[i], update)]

\* result.modified_count of that update: 1 iff a document matched and changed
ModifiedCount(coll, id, update) ==
    LET i == FindIndex(coll, id)
    IN  IF i # 0 /\ SetFields(coll[i], update) # coll[i] THEN 1 ELSE 0

\* collection.delete_one({"_id": id})
DeleteOne(coll, id) ==
    LET i == FindIndex(coll, id)
    IN  IF i = 0 THEN coll
        ELSE SubSeq(coll, 1, i - 1) \o SubSeq(coll, i + 1, Len(coll))

\* result.deleted_count of that delete
DeletedCount(coll, id) == IF FindIndex(coll, id) # 0 THEN 1 ELSE 0

\* for doc in docs: doc["_id"] = str(doc["_id"])
StrIds(docs) ==
    [i \in 1..Len(docs) |-> [docs[i] EXCEPT !["_id"] = str(docs[i]._id)]]

\* Database.get_collection: TRUE iff it returns a handle, FALSE iff it
\* raises Exception("Database not connected")
GetCollectionOk(dbv) == dbv # None

-----------------------------------------------------------------------------
(* Fixed data of app/main.py *)

ADMIN_USERNAME == "admin"
ADMIN_PASSWORD == "password123"

Chars_Python == <<"P", "y", "t", "h", "o", "n">>
Chars_Flask == <<"F", "l", "a", "s", "k">>
Chars_SQLite == <<"S", "Q", "L", "i", "t", "e">>
Chars_Django == <<"D", "j", "a", "n", "g", "o">>
Chars_PostgreSQL == <<"P", "o", "s", "t", "g", "r", "e", "S", "Q", "L">>
Chars_FastAPI == <<"F", "a", "s", "t", "A", "P", "I">>
Chars_MongoDB == <<"M", "o", "n", "g", "o", "D", "B">>
Chars_TensorFlow == <<"T", "e", "n", "s", "o", "r", "F", "l", "o", "w">>
Chars_Pandas == <<"P", "a", "n", "d", "a", "s">>

\* the sample_projects list that lifespan inserts into an empty collection
SampleProjects ==
    << [name |-> "Social Media Platform",
        description |-> "A social networking application with user profiles and posts",
        tech_stack |-> <<Chars_Python, Chars_Flask, Chars_SQLite>>,
        status |-> "Completed", featured |-> TRUE],
       [name |-> "Learning Platform",
        description |-> "Educational platform with courses and progress tracking",
        tech_stack |-> <<Chars_Python, Chars_Django, Chars_PostgreSQL>>,
        status |-> "Completed", featured |-> TRUE],
       [name |-> "Music Streaming Platform",
        description |-> "Music player with playlists and user preferences",
        tech_stack |-> <<Chars_Python, Chars_FastAPI, Chars_MongoDB>>,
        status |-> "Completed", featured |-> FALSE],
       [name |-> "Emoji Classifier",
        description |-> "Machine learning model to classify and analyze emojis",
        tech_stack |-> <<Chars_Python, Chars_TensorFlow, Chars_Pandas>>,
        status |-> "In Progress", featured |-> TRUE] >>

\* FALLBACK_PROJECTS: the same four, with the fixed string ids "1".."4"
FallbackIds == <<"1", "2", "3", "4">>

FALLBACK_PROJECTS ==
    [i \in 1..Len(SampleProjects) |->
        [k \in DOMAIN SampleProjects[i] \cup {"_id"} |->
            IF k = "_id" THEN [raw |-> FallbackIds[i]] ELSE SampleProjects[i][k]]]

\* .limit(2) and [:2] in home
HomeFeaturedLimit == 2
\* .limit(5) in admin
AdminContactsLimit == 5

-----------------------------------------------------------------------------
(* Responses *)

TemplateResponse(template, context) ==
    [status |-> 200, template |-> template, context |-> context]

RedirectResponse(url) == [status |-> 303, location |-> url]

HTTPException(status_code, detail, headers) ==
    [status |-> status_code, detail |-> detail, headers |-> headers]

JSONResponse(body) == [status |-> 200, json |-> body]

NoHeaders == [h \in {} |-> ""]

\* the 401 of fastapi.security.HTTPBasic (no or malformed Authorization
\* header) and of verify_admin (wrong username or password)
Unauthorized(detail) ==
    HTTPException(401, detail, [h \in {"WWW-Authenticate"} |-> "Basic"])

-----------------------------------------------------------------------------
(* Request inputs *)

\* an absent Authorization header
NoCredentials == [missing |-> TRUE]

CredentialInputs ==
    {NoCredentials} \cup
    [username : {ADMIN_USERNAME, "guest"}, password : {ADMIN_PASSWORD, "letmein"}]

\* verify_admin with "or" between the two comparisons
verify_admin_either(credentials) ==
    LET is_correct_username == credentials.username = ADMIN_USERNAME
        is_correct_password == credentials.password = ADMIN_PASSWORD
    IN  is_correct_username \/ is_correct_password

\* verify_admin, after HTTPBasic has extracted the credentials
verify_admin(credentials) ==
    LET is_correct_username == credentials.username = ADMIN_USERNAME
        is_correct_password == credentials.password = ADMIN_PASSWORD
    IN  is_correct_username /\ is_correct_password

\* Depends(verify_admin): TRUE iff the handler body runs
Authenticated(credentials) ==
    "username" \in DOMAIN credentials /\ verify_admin(credentials)

\* the response when it does not
AuthFailure(credentials) ==
    IF "username" \in DOMAIN credentials
    THEN Unauthorized("Invalid admin credentials")
    ELSE Unauthorized("Not authenticated")

\* values of the path parameter project_id: the string of every ObjectId
\* generated so far, of the next one (never stored), and a non-hex string
ProjectIdInputs == {str(n) : n \in 1..nextId} \cup {[raw |-> FallbackIds[1]]}

\* add/edit forms of the main specification.  Form(...) fields are required:
\* FastAPI answers 422 to an empty value before the handler runs, so name,
\* description, tech_stack and status are non-empty here.
ProjectForms ==
    [name : {"Blog"}, description : {"A personal blog engine"},
     tech_stack : {<<"a">>},
     status : {"Planning"},
     github_url : {""}, demo_url : {""}, featured : BOOLEAN]

EmailInputs ==
    {<<"u", "@", "d", ".", "c">>, <<"u", "d", ".", "c">>, <<"u", "@", "d">>}

ContactForms ==
    [firstName : {"Ada"}, lastName : {"Lovelace"}, email : EmailInputs,
     subject : {"Hello"}, message : {"I would like to get in touch"},
     newsletter : {FALSE}]

-----------------------------------------------------------------------------
(* The state machine *)

\* the state after import: db = Database(), the collections as an empty
\* MongoDB has them, the e-mail settings as the environment gives them
Created(usernames, passwords) ==
    /\ phase = "created"
    /\ client = None
    /\ db = None
    /\ connected = FALSE
    /\ EMAIL_USERNAME \in usernames
    /\ EMAIL_PASSWORD \in passwords
    /\ projects = <<>>
    /\ contacts = <<>>
    /\ nextId = 1
    /\ writes = 0
    /\ req = [route |-> "none"]
    /\ resp = [status |-> 0]
    /\ log = <<>>

\* EMAIL_USERNAME and EMAIL_PASSWORD at their defaults
Init == Created({""}, {""})

\* Database.connect.  outcome: "ok" (server_info answers), "unreachable"
\* (server_info raises) or "bad_uri" (MongoClient(...) itself raises).
\* The result is <<client, db, returned value>>.
connect(outcome) ==
    IF outcome = "bad_uri" THEN <<client, db, FALSE>>
    ELSE IF outcome = "unreachable" THEN <<"MongoClient", "Database", FALSE>>
    ELSE <<"MongoClient", "Database", TRUE>>

\* insert_many(sample_projects): ids nextId, nextId + 1, ...
RECURSIVE InsertMany(_, _, _)
InsertMany(coll, docs, id) ==
    IF docs = <<>> THEN coll
    ELSE InsertMany(InsertOne(coll, Head(docs), id), Tail(docs), id + 1)

\* lifespan, up to the yield
Startup ==
    /\ phase = "created"
    /\ \E outcome \in {"ok", "unreachable", "bad_uri"} :
         LET c == connect(outcome)
             seed == c[3] /\ Len(projects) = 0
         IN  /\ client' = c[1]
             /\ db' = c[2]
             /\ connected' = (connected \/ c[3])
             /\ projects' = IF seed THEN InsertMany(projects, SampleProjects, nextId)
                            ELSE projects
             /\ nextId' = IF seed THEN nextId + Len(SampleProjects) ELSE nextId
    /\ phase' = "running"
    /\ UNCHANGED <<EMAIL_USERNAME, EMAIL_PASSWORD, contacts, writes, req, resp, log>>

\* lifespan, after the yield: db.close()
Shutdown ==
    /\ phase = "running"
    /\ phase' = "stopped"
    /\ UNCHANGED <<client, db, connected, EMAIL_USERNAME, EMAIL_PASSWORD, projects,
                   contacts, nextId, writes, req, resp, log>>

\* what every request handler leaves behind
Handle(r, rsp, lg, projs, conts, nid) ==
    /\ phase = "running"
    /\ (projs # projects \/ conts # contacts) => writes < MaxWrites
    /\ req' = r
    /\ resp' = rsp
    /\ log' = lg
    /\ projects' = projs
    /\ contacts' = conts
    /\ nextId' = nid
    /\ writes' = IF projs # projects \/ conts # contacts THEN writes + 1 ELSE writes
    /\ UNCHANGED <<phase, client, db, connected, EMAIL_USERNAME, EMAIL_PASSWORD>>

\* a handler that leaves the store alone
Reply(r, rsp, lg) == Handle(r, rsp, lg, projects, contacts, nextId)

\* an admin request that Depends(verify_admin) rejects
Reject(route, credentials) ==
    Reply([route |-> route, credentials |-> credentials], AuthFailure(credentials), <<>>)

\* outcomes of one call to the store through a collection handle: it
\* returns, or it raises (the server does not answer)
StoreOutcomes == {"ok", "raised"}

\* the find without .limit(2)
FindFeaturedNoLimit(coll) ==
    SelectSeq(coll, LAMBDA p : "featured" \in DOMAIN p /\ p.featured = TRUE)

\* projects_collection.find({"featured": True}).limit(2)
FindFeatured(coll) ==
    Take(SelectSeq(coll, LAMBDA p : "featured" \in DOMAIN p /\ p.featured = TRUE),
         HomeFeaturedLimit)

\* [p for p in FALLBACK_PROJECTS if p.get("featured")][:2]
FallbackFeatured ==
    Take(SelectSeq(FALLBACK_PROJECTS,
                   LAMBDA p : "featured" \in DOMAIN p /\ p.featured = TRUE),
         HomeFeaturedLimit)

HomePage(featured_projects) ==
    TemplateResponse("home.html",
        [page_title |-> "Home", featured_projects |-> featured_projects])

\* GET /
home ==
    LET r == [route |-> "home"]
    IN  IF ~GetCollectionOk(db)
        THEN Reply(r, HomePage(FallbackFeatured), <<"home", "fallback">>)
        ELSE \E o \in StoreOutcomes :
            IF o = "raised"
            THEN Reply(r, HomePage(FallbackFeatured), <<"home", "find", "fallback">>)
            ELSE Reply(r, HomePage(StrIds(FindFeatured(projects))), <<"home", "find">>)

\* GET /about
about ==
    Reply([route |-> "about"],
          TemplateResponse("about.html", [page_title |-> "About"]), <<"about">>)

ProjectsPage(all_projects) ==
    TemplateResponse("projects.html",
        [page_title |-> "Projects", projects |-> all_projects])

\* GET /projects
projects_page ==
    LET r == [route |-> "projects"]
    IN  IF ~GetCollectionOk(db)
        THEN Reply(r, ProjectsPage(FALLBACK_PROJECTS), <<"projects", "fallback">>)
        ELSE \E o \in StoreOutcomes :
            IF o = "raised"
            THEN Reply(r, ProjectsPage(FALLBACK_PROJECTS),
                       <<"projects", "find", "fallback">>)
            ELSE Reply(r, ProjectsPage(StrIds(projects)), <<"projects", "find">>)

\* GET /contact
contact ==
    Reply([route |-> "contact"],
          TemplateResponse("contact.html", [page_title |-> "Contact"]), <<"contact">>)

MsgSent == "Thank you! Your message has been sent successfully. I'll get back to you soon!"
MsgSaved == "Thank you! Your message has been saved. I'll get back to you soon! (Email notification failed)"
MsgUnavailable == "Thank you for your message! (Database currently unavailable, but your message was received)"
MsgTechnical == "Thank you for your message! There was a technical issue, but I'll still try to get back to you."

\* the guard of send_email: TRUE iff it goes on to the SMTP session
EmailConfigured == ~(EMAIL_USERNAME = "" \/ EMAIL_PASSWORD = "")

\* send_email without the configuration guard
SendOutcomesUnguarded == {"sent", "failed"}

\* outcomes of send_email: "skipped" (not configured), "sent" (aiosmtplib.send
\* returned) or "failed" (it raised)
SendOutcomes == IF EmailConfigured THEN {"sent", "failed"} ELSE {"skipped"}

\* the value send_email returns
send_email(outcome) == outcome = "sent"

\* what send_email does
send_email_log(outcome) ==
    IF outcome = "skipped" THEN <<"send_email">>
    ELSE IF outcome = "sent" THEN <<"send_email", "aiosmtplib.send">>
    ELSE <<"send_email", "aiosmtplib.send", "raised">>

ContactPage(success_msg) ==
    TemplateResponse("contact.html", [page_title |-> "Contact", success |-> success_msg])

\* SuccessMsg reporting a failed notification as a failed submission
SuccessMsgNotificationFatal(inserted, email_sent) ==
    IF inserted /\ email_sent THEN MsgSent ELSE MsgTechnical

\* success_msg chosen after the insert and the notification.  inserted:
\* result.inserted_id is truthy (an ObjectId always is)
SuccessMsg(inserted, email_sent) ==
    IF inserted
    THEN IF email_sent THEN MsgSent ELSE MsgSaved
    ELSE MsgUnavailable

\* POST /contact
submit_contact(forms) ==
    \E f \in forms :
        LET r == [route |-> "submit_contact", form |-> f]
            valid == ContactCreateValid(f.firstName, f.lastName, f.email,
                                        f.subject, f.message)
            doc == ContactCreateDict(f.firstName, f.lastName, f.email,
                                     f.subject, f.message, f.newsletter)
        IN  IF ~valid
            THEN Reply(r, ContactPage(MsgTechnical),
                       <<"submit_contact", "ValidationError">>)
            ELSE IF ~GetCollectionOk(db)
            THEN Reply(r, ContactPage(MsgTechnical),
                       <<"submit_contact", "Database not connected">>)
            ELSE \E o \in StoreOutcomes :
                IF o = "raised"
                THEN Reply(r, ContactPage(MsgTechnical),
                           <<"submit_contact", "insert_one", "raised">>)
                ELSE \E sent \in SendOutcomes :
                    Handle(r, ContactPage(SuccessMsg(TRUE, send_email(sent))),
                           <<"submit_contact", "insert_one">> \o send_email_log(sent),
                           projects, InsertOne(contacts, doc, nextId), nextId + 1)

\* GET /test-auth
test_auth(creds) ==
    \E c \in creds :
        IF ~Authenticated(c) THEN Reject("test_auth", c)
        ELSE Reply([route |-> "test_auth", credentials |-> c],
                   JSONResponse([message |-> "Hello " \o c.username \o ", auth is working!"]),
                   <<"test_auth">>)

\* contacts_collection.find({}).sort("created_at", -1).limit(5).  No contact
\* document has a created_at field (ContactCreate has none), so every sort
\* key is null and the documents come in natural order.
RecentContacts(coll) == Take(coll, AdminContactsLimit)

AdminPage(all_projects, recent_contacts) ==
    TemplateResponse("admin.html",
        [page_title |-> "Admin", projects |-> all_projects, contacts |-> recent_contacts])

\* GET /admin
admin(creds) ==
    \E c \in creds :
        LET r == [route |-> "admin", credentials |-> c]
        IN  IF ~Authenticated(c) THEN Reject("admin", c)
            ELSE IF ~GetCollectionOk(db)
            THEN Reply(r, AdminPage(FALLBACK_PROJECTS, <<>>), <<"admin", "fallback">>)
            ELSE \E o \in StoreOutcomes :
                IF o = "raised"
                THEN Reply(r, AdminPage(FALLBACK_PROJECTS, <<>>),
                           <<"admin", "find", "fallback">>)
                ELSE Reply(r, AdminPage(StrIds(projects), StrIds(RecentContacts(contacts))),
                           <<"admin", "find", "find">>)

\* POST /admin/projects
add_project(creds, forms) ==
    \E c \in creds :
        IF ~Authenticated(c) THEN Reject("add_project", c)
        ELSE \E f \in forms :
            LET r == [route |-> "add_project", credentials |-> c, form |-> f]
                tech_list == ParseTechStack(f.tech_stack)
                valid == ProjectCreateValid(f.name, f.description, tech_list, f.status)
                doc == ProjectCreateDict(f.name, f.description, tech_list, f.status,
                                         OrNone(f.github_url), OrNone(f.demo_url),
                                         f.featured)
                redirect == RedirectResponse("/admin")
            IN  IF ~valid
                THEN Reply(r, redirect, <<"add_project", "ValidationError">>)
                ELSE IF ~GetCollectionOk(db)
                THEN Reply(r, redirect, <<"add_project", "Database not connected">>)
                ELSE \E o \in StoreOutcomes :
                    IF o = "raised"
                    THEN Reply(r, redirect, <<"add_project", "insert_one", "raised">>)
                    ELSE Handle(r, redirect, <<"add_project", "insert_one">>,
                                InsertOne(projects, doc, nextId), contacts, nextId + 1)

\* values of datetime.utcnow(), a wall clock: MongoDB keeps milliseconds, so
\* two reads can give the same value
Timestamps == {1, 2}

\* update_data of edit_project
UpdateData(f, t) ==
    [name |-> f.name, description |-> f.description,
     tech_stack |-> ParseTechStack(f.tech_stack), status |-> f.status,
     github_url |-> OrNone(f.github_url), demo_url |-> OrNone(f.demo_url),
     featured |-> f.featured, updated_at |-> t]

\* the response of edit_project.  raised: "" when the try block returned,
\* otherwise str(e) of what it raised.  The except clause catches every
\* Exception, HTTPException included, prints it and falls through to the
\* redirect after the try statement.
EditResponse(raised) == RedirectResponse("/admin")

\* POST /admin/projects/{project_id}/edit
edit_project(creds, forms) ==
    \E c \in creds :
        IF ~Authenticated(c) THEN Reject("edit_project", c)
        ELSE \E project_id \in ProjectIdInputs, f \in forms, t \in Timestamps :
            /\ LET r == [route |-> "edit_project", credentials |-> c,
                         project_id |-> project_id, form |-> f]
                   update_data == UpdateData(f, t)
               IN  IF ~GetCollectionOk(db)
                   THEN Handle(r, EditResponse("Database not connected"),
                               <<"edit_project", "Database not connected">>,
                               projects, contacts, nextId)
                   ELSE IF ~ObjectIdValid(project_id)
                   THEN Handle(r, EditResponse("InvalidId"),
                               <<"edit_project", "InvalidId">>,
                               projects, contacts, nextId)
                   ELSE \E o \in StoreOutcomes :
                       IF o = "raised"
                       THEN Handle(r, EditResponse("raised"),
                                   <<"edit_project", "update_one", "raised">>,
                                   projects, contacts, nextId)
                       ELSE IF ModifiedCount(projects, ObjectId(project_id), update_data) # 0
                       THEN Handle(r, EditResponse(""),
                                   <<"edit_project", "update_one">>,
                                   UpdateOne(projects, ObjectId(project_id), update_data),
                                   contacts, nextId)
                       ELSE Handle(r, EditResponse("404: Project not found"),
                                   <<"edit_project", "update_one", "HTTPException 404">>,
                                   UpdateOne(projects, ObjectId(project_id), update_data),
                                   contacts, nextId)

\* the response of delete_project.  raised as in EditResponse; the except
\* clause turns every Exception, HTTPException included, into a 500 whose
\* detail is str(e).
DeleteResponse(raised) ==
    IF raised = "" THEN JSONResponse([success |-> TRUE])
    ELSE HTTPException(500, raised, NoHeaders)

\* DELETE /admin/projects/{project_id}
delete_project(creds) ==
    \E c \in creds :
        IF ~Authenticated(c) THEN Reject("delete_project", c)
        ELSE \E project_id \in ProjectIdInputs :
            LET r == [route |-> "delete_project", credentials |-> c,
                      project_id |-> project_id]
            IN  IF ~GetCollectionOk(db)
                THEN Reply(r, DeleteResponse("Database not connected"),
                           <<"delete_project", "Database not connected">>)
                ELSE IF ~ObjectIdValid(project_id)
                THEN Reply(r, DeleteResponse("InvalidId"),
                           <<"delete_project", "InvalidId">>)
                ELSE \E o \in StoreOutcomes :
                    IF o = "raised"
                    THEN Reply(r, DeleteResponse("raised"),
                               <<"delete_project", "delete_one", "raised">>)
                    ELSE IF DeletedCount(projects, ObjectId(project_id)) # 0
                    THEN Handle(r, DeleteResponse(""), <<"delete_project", "delete_one">>,
                                DeleteOne(projects, ObjectId(project_id)),
                                contacts, nextId)
                    ELSE Reply(r, DeleteResponse("404: Project not found"),
                               <<"delete_project", "delete_one", "HTTPException 404">>)

AdminCredentials == [username |-> ADMIN_USERNAME, password |-> ADMIN_PASSWORD]

Next ==
    \/ Startup
    \/ Shutdown
    \/ home
    \/ about
    \/ projects_page
    \/ contact
    \/ submit_contact(ContactForms)
    \/ test_auth(CredentialInputs)
    \/ admin(CredentialInputs)
    \/ add_project(CredentialInputs, ProjectForms)
    \/ edit_project(CredentialInputs, ProjectForms)
    \/ delete_project(CredentialInputs)

\* The whole application, with the default e-mail settings and small forms
Spec == Init /\ [][Next]_vars

-----------------------------------------------------------------------------
(* One admin form submission against the freshly seeded store, every form
   field varied *)

LongName ==
    "A project name that is made longer than one hundred characters, to exceed the limit of ProjectCreate."

WideForms ==
    [name : {"Blog", LongName},
     description : {"Too short", "A personal blog engine"},
     tech_stack : {<<"a">>, <<",", " ">>, <<"a", ",", "b">>},
     status : {"Completed", "In Progress", "Planning", "Archived"},
     github_url : {"", "https://github.com/me/blog"},
     demo_url : {"", "https://blog.example.com"},
     featured : BOOLEAN]

\* the state Startup reaches from Init when connect() succeeds
InitSeeded ==
    /\ phase = "running"
    /\ client = "MongoClient"
    /\ db = "Database"
    /\ connected = TRUE
    /\ EMAIL_USERNAME = ""
    /\ EMAIL_PASSWORD = ""
    /\ projects = InsertMany(<<>>, SampleProjects, 1)
    /\ contacts = <<>>
    /\ nextId = 1 + Len(SampleProjects)
    /\ writes = 0
    /\ req = [route |-> "none"]
    /\ resp = [status |-> 0]
    /\ log = <<>>

\* the first request after startup
NextForms ==
    /\ req.route = "none"
    /\ \/ add_project({AdminCredentials}, WideForms)
       \/ edit_project({AdminCredentials}, WideForms)

SpecForms == InitSeeded /\ [][NextForms]_vars

-----------------------------------------------------------------------------
(* One add-project submission, every tech-stack string up to MaxLen *)

TechAlphabet == {"a", "b", ",", " "}

ParseForms ==
    [name : {"Blog"},
     description : {"Too short", "A personal blog engine"},
     tech_stack : SeqsUpTo(TechAlphabet, MaxLen),
     status : {"Planning", "Archived"},
     github_url : {""}, demo_url : {""}, featured : {FALSE}]

\* the first request after startup
NextParse ==
    /\ req.route = "none"
    /\ add_project({AdminCredentials}, ParseForms)

SpecParse == InitSeeded /\ [][NextParse]_vars

-----------------------------------------------------------------------------
(* The contact form under every e-mail configuration *)

WideContactForms ==
    [firstName : {"Ada"}, lastName : {"Lovelace"},
     email : EmailInputs \cup {<<"@", "d", ".", "c">>, <<"u", "@", "d", ".", ".", "c">>},
     subject : {"Hello"}, message : {"I would like to get in touch"},
     newsletter : BOOLEAN]

InitContact == Created({"", "me@gmail.com"}, {"", "app-password"})

NextContact ==
    \/ Startup
    \/ contact
    \/ submit_contact(WideContactForms)

SpecContact == InitContact /\ [][NextContact]_vars

-----------------------------------------------------------------------------
(* One edit-project submission against a store that holds the four samples
   and one project added through the admin form by an earlier run *)

\* the documents add_project stores for the forms of ProjectForms
AddedProjects ==
    {ProjectCreateDict(f.name, f.description, ParseTechStack(f.tech_stack), f.status,
                       OrNone(f.github_url), OrNone(f.demo_url), f.featured) :
        f \in {g \in ProjectForms :
                  ProjectCreateValid(g.name, g.description,
                                     ParseTechStack(g.tech_stack), g.status)}}

\* the state Startup reaches when connect() succeeds and the collection is
\* not empty: nothing is seeded
InitEdit ==
    /\ phase = "running"
    /\ client = "MongoClient"
    /\ db = "Database"
    /\ connected = TRUE
    /\ EMAIL_USERNAME = ""
    /\ EMAIL_PASSWORD = ""
    /\ \E doc \in AddedProjects :
         projects = InsertOne(InsertMany(<<>>, SampleProjects, 1), doc,
                              1 + Len(SampleProjects))
    /\ contacts = <<>>
    /\ nextId = 2 + Len(SampleProjects)
    /\ writes = 0
    /\ req = [route |-> "none"]
    /\ resp = [status |-> 0]
    /\ log = <<>>

\* the first request after startup
NextEdit ==
    /\ req.route = "none"
    /\ edit_project({AdminCredentials}, WideForms)

SpecEdit == InitEdit /\ [][NextEdit]_vars

-----------------------------------------------------------------------------
(* Properties *)

\* a step that handles a request to this route
RequestStep(route) ==
    phase = "running" /\ phase' = "running" /\ req'.route = route

\* no document of the collection has the ObjectId this string denotes
MatchesNoRecord(coll, project_id) ==
    \/ ~ObjectIdValid(project_id)
    \/ \A i \in 1..Len(coll) : coll[i]._id # project_id.hex

\* the store answered every call of the request handled last
StoreAnswered(dbv, lg) == dbv # None /\ "raised" \notin Range(lg)

\* C1: DELETE /admin/projects/{id} with valid admin credentials, for an id
\* that matches no record and a store that answers, returns 404 and leaves
\* the projects collection unchanged.
C1_DeleteMissingIs404 ==
    [][(/\ RequestStep("delete_project")
        /\ req'.credentials = AdminCredentials
        /\ MatchesNoRecord(projects, req'.project_id)
        /\ StoreAnswered(db, log'))
       => (resp'.status = 404 /\ projects' = projects)]_vars

AdminRoutes == {"admin", "add_project", "edit_project", "delete_project"}

\* C2: on every admin route, a request whose Basic credentials are missing or
\* are not exactly the configured username and password gets a 401 with a
\* WWW-Authenticate challenge; the handler body does not run, the response
\* carries no page context and no JSON body, and both collections are unchanged.
C2_UnauthenticatedGets401 ==
    [][(/\ phase = "running" /\ phase' = "running"
        /\ req'.route \in AdminRoutes
        /\ req'.credentials # AdminCredentials)
       => (/\ resp'.status = 401
           /\ "headers" \in DOMAIN resp'
           /\ "WWW-Authenticate" \in DOMAIN resp'.headers
           /\ "context" \notin DOMAIN resp'
           /\ "json" \notin DOMAIN resp'
           /\ log' = <<>>
           /\ projects' = projects
           /\ contacts' = contacts)]_vars

\* an edit request with the right username and a wrong password was rejected
\* while the collection held projects
C2_Witness ==
    /\ req.route = "edit_project"
    /\ "username" \in DOMAIN req.credentials
    /\ req.credentials.username = ADMIN_USERNAME
    /\ req.credentials.password # ADMIN_PASSWORD
    /\ resp.status = 401
    /\ Len(projects) > 0

\* C6: the home page gets at most 2 projects, each with featured = true,
\* from the store and from the fallback list alike.
C6_HomeAtMostTwoFeatured ==
    req.route = "home" =>
        LET shown == resp.context.featured_projects
        IN  /\ Len(shown) <= 2
            /\ \A i \in 1..Len(shown) : shown[i].featured = TRUE

\* the home page was served from a store holding more than 2 featured projects
C6_Witness ==
    /\ req.route = "home"
    /\ log = <<"home", "find">>
    /\ Cardinality({i \in 1..Len(projects) : projects[i].featured}) > 2
    /\ Len(resp.context.featured_projects) = 2

\* C8: POST /admin/projects/{id}/edit with valid credentials, for an id that
\* matches no record and a store that answers, fails with a 404 instead of
\* redirecting, and leaves the projects collection unchanged.
C8_EditMissingIs404 ==
    [][(/\ RequestStep("edit_project")
        /\ req'.credentials = AdminCredentials
        /\ MatchesNoRecord(projects, req'.project_id)
        /\ StoreAnswered(db, log'))
       => (resp'.status = 404 /\ projects' = projects)]_vars

\* C9: get_collection raises "Database not connected" as long as no connect()
\* has returned success; it returns a handle only after one has.
C9_NotConnectedUntilConnectSucceeds ==
    ~connected => ~GetCollectionOk(db)

\* C3: an add or edit request whose status is outside {Completed, In Progress,
\* Planning} fails validation: it inserts or writes nothing into the projects
\* collection.
C3_InvalidStatusNeverStored ==
    [][(/\ phase = "running" /\ phase' = "running"
        /\ req'.route \in {"add_project", "edit_project"}
        /\ "form" \in DOMAIN req'
        /\ req'.form.status \notin {"Completed", "In Progress", "Planning"})
       => projects' = projects]_vars

\* C4: every record of the projects collection has a tech_stack with at least
\* one entry.
C4_TechStackNeverEmpty ==
    \A i \in 1..Len(projects) : Len(projects[i].tech_stack) >= 1

\* C5: a POST /contact whose email is not a valid address is rejected before
\* any store write: the contacts collection is unchanged and no insert is issued.
C5_InvalidEmailNotStored ==
    [][(RequestStep("submit_contact") /\ ~EmailValid(req'.form.email))
       => (contacts' = contacts /\ "insert_one" \notin Range(log'))]_vars

\* an invalid address was rejected although the collection handle was there
C5_Witness ==
    /\ req.route = "submit_contact"
    /\ ~EmailValid(req.form.email)
    /\ GetCollectionOk(db)
    /\ log = <<"submit_contact", "ValidationError">>
    /\ resp.context.success = MsgTechnical

\* the record of the contact submission handled last was persisted
ContactPersisted ==
    req.route = "submit_contact" /\ "send_email" \in Range(log)

ExpectedTechStack(s) ==
    LET commas == {i \in 1..Len(s) : s[i] = ","}
        n == Cardinality(commas)
        \* the k-th comma; position 0 before the string, Len(s) + 1 after it
        cut(k) == IF k = 0 THEN 0
                  ELSE IF k = n + 1 THEN Len(s) + 1
                  ELSE CHOOSE p \in commas :
                           Cardinality({q \in commas : q <= p}) = k
        piece(k) == [j \in 1..(cut(k) - cut(k - 1) - 1) |-> s[cut(k - 1) + j]]
        trimmed(x) ==
            LET solid == {j \in 1..Len(x) : x[j] # " "}
            IN  IF solid = {} THEN <<>>
                ELSE LET lo == CHOOSE j \in solid : \A m \in solid : j <= m
                         hi == CHOOSE j \in solid : \A m \in solid : j >= m
                     IN  [j \in 1..(hi - lo + 1) |-> x[lo + j - 1]]
        pieces == [k \in 1..(n + 1) |-> trimmed(piece(k))]
    IN  SelectSeq(pieces, LAMBDA x : x # <<>>)

\* C10: the tech_stack of the record an add-project request stores is the
\* submitted string split on commas, each segment trimmed, empty segments
\* removed, the rest in their original order with duplicates kept.
C10_StoredTechStackIsParsedInput ==
    (req.route = "add_project" /\ log = <<"add_project", "insert_one">>) =>
        Last(projects).tech_stack = ExpectedTechStack(req.form.tech_stack)

\* "a, ,b" was stored as ["a", "b"]
C10_Witness ==
    /\ req.route = "add_project"
    /\ log = <<"add_project", "insert_one">>
    /\ req.form.tech_stack = <<"a", ",", " ", ",", "b">>
    /\ Last(projects).tech_stack = << <<"a">>, <<"b">> >>

\* C11: once connect() has returned failure at startup, every GET /projects is
\* answered with a 200 page that shows exactly the 4 fallback entries, in
\* their fixed order and with their hardcoded fields.
C11_FallbackAfterFailedStartup ==
    (phase = "running" /\ ~connected /\ req.route = "projects") =>
        /\ resp.status = 200
        /\ resp.template = "projects.html"
        /\ resp.context.projects = FALLBACK_PROJECTS

\* the fields of the edit form
EditFormFields ==
    {"name", "description", "tech_stack", "status", "github_url", "demo_url", "featured"}

\* C12: an edit request on an existing project keeps the number of records,
\* every other record, and in the edited record every field that is neither a
\* form field nor updated_at (so _id, created_at and image_url); when the store
\* answers, the seven form fields hold the submitted values (tech_stack parsed,
\* an empty URL stored as None) and updated_at is set.
C12_EditOverwritesFormFieldsOnly ==
    [][(/\ RequestStep("edit_project")
        /\ req'.credentials = AdminCredentials
        /\ ~MatchesNoRecord(projects, req'.project_id))
       => LET i == CHOOSE j \in 1..Len(projects) : projects[j]._id = req'.project_id.hex
              old == projects[i]
              new == projects'[i]
              f == req'.form
          IN  /\ Len(projects') = Len(projects)
              /\ \A j \in 1..Len(projects) : j # i => projects'[j] = projects[j]
              /\ \A k \in DOMAIN old \ (EditFormFields \cup {"updated_at"}) :
                     k \in DOMAIN new /\ new[k] = old[k]
              /\ DOMAIN new \subseteq DOMAIN old \cup EditFormFields \cup {"updated_at"}
              /\ StoreAnswered(db, log') =>
                     /\ new.name = f.name
                     /\ new.description = f.description
                     /\ new.tech_stack = ExpectedTechStack(f.tech_stack)
                     /\ new.status = f.status
                     /\ new.github_url = (IF f.github_url = "" THEN "None" ELSE f.github_url)
                     /\ new.demo_url = (IF f.demo_url = "" THEN "None" ELSE f.demo_url)
                     /\ new.featured = f.featured
                     /\ "updated_at" \in DOMAIN new
                     /\ new.updated_at \in {1, 2}]_vars

\* a project stored by add_project (it has image_url) was edited: every form
\* field was overwritten and image_url is still there
C12_Witness ==
    /\ req.route = "edit_project"
    /\ log = <<"edit_project", "update_one">>
    /\ \E i \in 1..Len(projects) :
         /\ projects[i]._id = req.project_id.hex
         /\ "image_url" \in DOMAIN projects[i]
         /\ "updated_at" \in DOMAIN projects[i]
         /\ projects[i].name = LongName
         /\ projects[i].status = "Archived"
         /\ projects[i].tech_stack = << <<"a">>, <<"b">> >>
         /\ projects[i].demo_url = "https://blog.example.com"

\* C13: within one POST /contact request send_email is called at most once and
\* only after insert_one has stored the record; no notification is attempted
\* when validation or the insert fails; no SMTP delivery is attempted when
\* the SMTP username or password is empty, and never more than one.
C13_NotifyOnceAfterInsert ==
    [][RequestStep("submit_contact")
       => LET lg == log'
              calls == {i \in 1..Len(lg) : lg[i] = "send_email"}
              smtp == {i \in 1..Len(lg) : lg[i] = "aiosmtplib.send"}
          IN  /\ Cardinality(calls) <= 1
              /\ Cardinality(smtp) <= 1
              /\ \A i \in calls :
                     /\ \E j \in 1..(i - 1) : lg[j] = "insert_one"
                     /\ Len(contacts') = Len(contacts) + 1
                     /\ contacts'[Len(contacts')].email = req'.form.email
              /\ \A i \in smtp : \E j \in calls : j < i
              /\ (~EmailValid(req'.form.email) \/ contacts' = contacts)
                     => (calls = {} /\ smtp = {})
              /\ (EMAIL_USERNAME = "" \/ EMAIL_PASSWORD = "") => smtp = {}]_vars

\* a record was stored and send_email was called with a username but no
\* password configured: no SMTP delivery was attempted
C13_Witness ==
    /\ req.route = "submit_contact"
    /\ EMAIL_USERNAME # "" /\ EMAIL_PASSWORD = ""
    /\ log = <<"submit_contact", "insert_one", "send_email">>
    /\ Len(contacts) = 1

====
